---- MODULE Spec2Model ----
(***************************************************************************)
(* OpenAI Model Fetcher: the PySide6 program (main.py) and the             *)
(* customtkinter program (app.py).  Each is modelled as the state machine  *)
(* of its interactive thread, its fetch worker threads and the profile     *)
(* files under ~/.openai_model_fetcher.                                    *)
(*                                                                         *)
(* A text (str) is a sequence of tokens; the token " " is whitespace.  The *)
(* empty str "" is <<>>.                                                   *)
(***************************************************************************)
EXTENDS Integers, Sequences, FiniteSets, TLC

(***************************************************************************)
(* Bounds of the model.                                                    *)
(***************************************************************************)
MaxInFlight == 2    \* fetches dispatched and not yet handled, at most
MaxModels == 1      \* length of the 'data' list of a response, at most

(***************************************************************************)
(* Python values.                                                          *)
(***************************************************************************)
\* Python's None, distinct from every text
None == <<"<None>">>

\* truth value of a str-or-None: None and "" are false
Truthy(v) == v # None /\ v # <<>>

RECURSIVE lstrip(_)
lstrip(t) == IF t # <<>> /\ Head(t) = " " THEN lstrip(Tail(t)) ELSE t

RECURSIVE rstrip(_)
rstrip(t) == IF t # <<>> /\ t[Len(t)] = " " THEN rstrip(SubSeq(t, 1, Len(t) - 1)) ELSE t

\* str.strip()
strip(t) == rstrip(lstrip(t))

\* dict.get(key, default) on a dict held as a set of <<key, value>> pairs
get(d, k, default) ==
    IF \E kv \in d : kv[1] = k THEN (CHOOSE kv \in d : kv[1] = k)[2] ELSE default

(***************************************************************************)
(* urllib.parse.urlparse, on tokens: the scheme is the run of name tokens  *)
(* before the first ":", lower-cased; the netloc is what follows a leading *)
(* "//" up to the next "/"; an unmatched "[" in the netloc raises          *)
(* ValueError.                                                             *)
(***************************************************************************)
SchemeTokens == {"http", "https", "ftp", "HTTP"}

lower(tok) == IF tok = "HTTP" THEN "http" ELSE tok

\* index of the first occurrence of tok in t, 0 when there is none
find(t, tok) ==
    IF \E i \in 1..Len(t) : t[i] = tok
    THEN CHOOSE i \in 1..Len(t) : t[i] = tok /\ \A j \in 1..(i - 1) : t[j] # tok
    ELSE 0

urlparse(t) ==
    LET u == lstrip(t)
        i == find(u, ":")
        hasScheme == i = 2 /\ u[1] \in SchemeTokens
        scheme == IF hasScheme THEN lower(u[1]) ELSE ""
        rest == IF hasScheme THEN SubSeq(u, 3, Len(u)) ELSE u
        hasNetloc == Len(rest) >= 2 /\ rest[1] = "/" /\ rest[2] = "/"
        after == IF hasNetloc THEN SubSeq(rest, 3, Len(rest)) ELSE <<>>
        j == find(after, "/")
        netloc == IF j = 0 THEN after ELSE SubSeq(after, 1, j - 1)
    IN  [raises |-> \E k \in 1..Len(netloc) : netloc[k] = "[",
         scheme |-> scheme, netloc |-> netloc]

\* main.py OpenAIAPIClient.validate_url
validate_url(url) ==
    LET parsed == urlparse(strip(url))
    IN  IF parsed.raises THEN FALSE
        ELSE parsed.scheme \in {"http", "https"} /\ parsed.netloc # <<>>

\* app.py validate_url, were it not to strip the text
app_validate_url_unstripped(url0) ==
    IF url0 = <<>> THEN FALSE
    ELSE LET parsed == urlparse(url0)
         IN  IF parsed.raises THEN FALSE
             ELSE IF parsed.scheme \notin {"http", "https"} THEN FALSE
             ELSE IF parsed.netloc = <<>> THEN FALSE
             ELSE TRUE

\* app.py OpenAIAPIClient.validate_url
app_validate_url(url0) ==
    LET url == strip(url0)
    IN  IF url = <<>> THEN FALSE
        ELSE LET parsed == urlparse(url)
             IN  IF parsed.raises THEN FALSE
                 ELSE IF parsed.scheme \notin {"http", "https"} THEN FALSE
                 ELSE IF parsed.netloc = <<>> THEN FALSE
                 ELSE TRUE

(***************************************************************************)
(* ConfigManager (main.py): one JSON file per profile in config_dir.  The  *)
(* directory is a function from the paths of the files that exist to their *)
(* parsed JSON content.  The "last_updated" field of a file is written and *)
(* never read by either program; it is not part of the content here.       *)
(***************************************************************************)
\* ConfigManager._get_path: config_dir / f"{name}.json"
_get_path(name) == name \o <<".json">>

\* Path.stem of a *.json path
stem(p) == SubSeq(p, 1, Len(p) - 1)

\* a path, relative to config_dir, of a file that is in config_dir itself
InDir(p) == \A i \in 1..Len(p) : p[i] # "/"

\* config_dir.glob("*.json")
glob(fs) == {p \in DOMAIN fs : InDir(p)}

\* api_key or ""
or_empty(api_key) == IF Truthy(api_key) THEN api_key ELSE <<>>

\* write_text(path, json.dumps(doc)): creates or replaces the one file at path
write_text(fs, p, doc) == [q \in (DOMAIN fs) \cup {p} |-> IF q = p THEN doc ELSE fs[q]]

\* Path.unlink(missing_ok=True)
unlink(fs, p) == [q \in (DOMAIN fs) \ {p} |-> fs[q]]

\* save, were it to write the key under the wrong field and leave api_key empty
save_dropping_key(fs, name, url, api_key) ==
    write_text(fs, _get_path(name), [base_url |-> url, api_key |-> <<>>])

\* ConfigManager.save
save(fs, name, url, api_key) ==
    write_text(fs, _get_path(name), [base_url |-> url, api_key |-> or_empty(api_key)])

\* the content of a file that was opened for writing (which truncates it) and
\* not written to the end: not JSON
Truncated == [truncated |-> TRUE]

\* ConfigManager.load: json.loads raises on a truncated file, "except Exception"
load(fs, name) ==
    LET path == _get_path(name)
    IN  IF path \in DOMAIN fs /\ fs[path] # Truncated
        THEN [base_url |-> fs[path].base_url, api_key |-> fs[path].api_key]
        ELSE [base_url |-> None, api_key |-> None]

\* delete, were it to unlink every *.json file
delete_every_file(fs, name) == [q \in (DOMAIN fs) \ glob(fs) |-> fs[q]]

\* ConfigManager.delete
delete(fs, name) == unlink(fs, _get_path(name))

\* ConfigManager.list_profiles
list_profiles(fs) == {stem(p) : p \in glob(fs)}

\* ConfigManager.clear_all
clear_all(fs) == [q \in (DOMAIN fs) \ glob(fs) |-> fs[q]]

(***************************************************************************)
(* ConfigManager (app.py): the single file config_dir / "config.json".     *)
(***************************************************************************)
config_file == <<"config", ".json">>

\* ConfigManager.save_config
save_config(fs, url, api_key) ==
    write_text(fs, config_file,
               [base_url |-> url, api_key |-> IF Truthy(api_key) THEN api_key ELSE <<>>])

\* ConfigManager.load_config
load_config(fs) ==
    IF config_file \notin DOMAIN fs \/ fs[config_file] = Truncated
    THEN [base_url |-> None, api_key |-> None]
    ELSE [base_url |-> fs[config_file].base_url, api_key |-> fs[config_file].api_key]

\* ConfigManager.clear_config
clear_config(fs) == IF config_file \in DOMAIN fs THEN unlink(fs, config_file) ELSE fs

(***************************************************************************)
(* OpenAIAPIClient.fetch_models.  The answer of the network to the one GET *)
(* request is an input: what requests.get raised (transport), the status   *)
(* code, and the shape of the body.  An APIError carries its message,      *)
(* written here in English.                                                *)
(***************************************************************************)
\* a model object of the 'data' list: a dict with an 'id', or without one
WithId == {<<"id", "gpt-x">>}
WithoutId == {}

\* the 'data' list of n model objects the server answers with
RECURSIVE data_of_len(_)
data_of_len(n) ==
    IF n = 0 THEN <<>>
    ELSE Append(data_of_len(n - 1), IF n % 2 = 1 THEN WithId ELSE WithoutId)

DataLists == {data_of_len(n) : n \in 0..MaxModels}

Transports == {"ok", "Timeout", "ConnectTimeout", "ConnectionError", "RequestException"}
Statuses == {200, 401, 404, 500, 503}
\* body of a 200 response: not JSON (resp.json() raises the JSONDecodeError of
\* requests, or a plain ValueError with an older requests), JSON that is not an
\* object, an object without 'data', an object whose 'data' is not a list, an
\* object with a 'data' list
BodyKinds == {"notjson_requests", "notjson_valueerror", "nonobject", "nodata",
              "data_notlist", "datalist"}

Responses ==
    {[transport |-> t, status |-> 0, body |-> "", data |-> <<>>] : t \in Transports \ {"ok"}}
    \cup {[transport |-> "ok", status |-> s, body |-> "", data |-> <<>>] : s \in Statuses \ {200}}
    \cup {[transport |-> "ok", status |-> 200, body |-> b, data |-> <<>>] :
             b \in BodyKinds \ {"datalist"}}
    \cup {[transport |-> "ok", status |-> 200, body |-> "datalist", data |-> d] :
             d \in DataLists}

Returned(d) == [ok |-> TRUE, data |-> d, msg |-> ""]
APIError(m) == [ok |-> FALSE, data |-> <<>>, msg |-> m]

\* fetch_models, were "except ConnectionError" to come before "except Timeout"
fetch_models_connection_first(resp) ==
    IF resp.transport \in {"ConnectTimeout", "ConnectionError"} THEN APIError("connection error")
    ELSE IF resp.transport = "Timeout" THEN APIError("timeout")
    ELSE IF resp.transport = "RequestException" THEN APIError("network request error")
    ELSE IF resp.status = 401 THEN APIError("401 authentication failed")
    ELSE IF resp.status = 404 THEN APIError("404 endpoint not found")
    ELSE IF resp.status = 500 THEN APIError("500 internal server error")
    ELSE IF resp.status # 200 THEN APIError("HTTP error status")
    ELSE IF resp.body = "notjson_requests" THEN APIError("network request error")
    ELSE IF resp.body = "notjson_valueerror" THEN APIError("response parse error")
    ELSE IF resp.body = "nonobject" THEN APIError("unknown error")
    ELSE IF resp.body \in {"nodata", "data_notlist"} THEN APIError("response format error")
    ELSE Returned(resp.data)

\* main.py OpenAIAPIClient.fetch_models: the returned dict, or the APIError raised
fetch_models(resp) ==
    IF resp.transport \in {"Timeout", "ConnectTimeout"} THEN APIError("timeout")
    ELSE IF resp.transport = "ConnectionError" THEN APIError("connection error")
    ELSE IF resp.transport = "RequestException" THEN APIError("network request error")
    ELSE IF resp.status = 401 THEN APIError("401 authentication failed")
    ELSE IF resp.status = 404 THEN APIError("404 endpoint not found")
    ELSE IF resp.status = 500 THEN APIError("500 internal server error")
    ELSE IF resp.status # 200 THEN APIError("HTTP error status")
    ELSE IF resp.body = "notjson_requests" THEN APIError("network request error")
    ELSE IF resp.body = "notjson_valueerror" THEN APIError("response parse error")
    ELSE IF resp.body = "nonobject" THEN APIError("unknown error")
    ELSE IF resp.body \in {"nodata", "data_notlist"} THEN APIError("response format error")
    ELSE Returned(resp.data)

\* app.py OpenAIAPIClient.fetch_models
app_fetch_models(resp) ==
    IF resp.transport \in {"Timeout", "ConnectTimeout"} THEN APIError("timeout")
    ELSE IF resp.transport = "ConnectionError" THEN APIError("connection error")
    ELSE IF resp.transport = "RequestException" THEN APIError("network request error")
    ELSE IF resp.status = 401 THEN APIError("401 authentication failed")
    ELSE IF resp.status = 404 THEN APIError("404 endpoint not found")
    ELSE IF resp.status = 500 THEN APIError("500 internal server error")
    ELSE IF resp.status # 200 THEN APIError("HTTP error status")
    ELSE IF resp.body \in {"notjson_requests", "notjson_valueerror"} THEN APIError("JSON parse error")
    ELSE IF resp.body \in {"nonobject", "nodata", "data_notlist"} THEN APIError("response format error")
    ELSE Returned(resp.data)

(***************************************************************************)
(* What the user can type.                                                 *)
(***************************************************************************)
U1 == <<"https", ":", "/", "/", "a">>

\* texts typed into the Base URL field
FTP == <<"ftp", ":", "/", "/", "a">>
UrlTexts == { <<" ">>, FTP, <<" ">> \o U1 }

\* texts typed into the API Key field
KeyTexts == { <<>>, <<"sk">> }

\* texts typed into the new-profile name field
NameTexts == { <<" ">>, <<" ", "default">>, <<"p1">>, <<"..", "/", "x">> }

DEFAULT == <<"default">>
\* the name the code writes with the two CJK characters U+9ED8 U+8BA4
MOREN == <<"moren">>

(***************************************************************************)
(* State.                                                                  *)
(***************************************************************************)
VARIABLES
    program,          \* which program runs: "main" (main.py) or "app" (app.py)
    files,            \* the *.json files, by their path relative to config_dir
    current_profile,  \* HomePage.current_profile
    url_entry,        \* HomePage.url_entry / InputFrame.url_entry: its text
    key_entry,        \* HomePage.key_entry / InputFrame.key_entry: its text
    loading,          \* the fetch and refresh buttons are disabled
    all_models,       \* HomePage.all_models
    model_ids,        \* HomePage.model_ids / ResultsFrame.model_ids
    model_cards,      \* HomePage.model_cards / ResultsFrame.model_widgets, by model id
    profile_list,     \* ProfilesPage: the names that have a card (use/delete buttons)
    workers,          \* number of worker threads that have not posted their outcome
    events,           \* outcomes posted to the interactive thread, not yet run
    requested,        \* history: the inputs of the fetch in flight, when it is the only one
    written,          \* history: the endpoint last passed to save, by profile name
    ret,              \* history: what the last ConfigManager call returned
    client,           \* a call of OpenAIAPIClient by itself: its input and what came of it
    writing,          \* the file writes that were begun and have not finished
    last              \* history: what the step that led here ran

vars == <<program, files, current_profile, url_entry, key_entry, loading,
          all_models, model_ids, model_cards, profile_list, workers, events,
          requested, written, ret, client, writing, last>>

results == <<all_models, model_ids, model_cards>>
inflight == <<workers, events, requested>>
store_hist == <<written, ret, client, writing>>

NoReq == [url |-> None, key |-> None, profile |-> None]
NoRet == [name |-> None, endpoint |-> [base_url |-> None, api_key |-> None], names |-> {}]

\* client, when no call of the client by itself is looked at
NoResp == [transport |-> "", status |-> 0, body |-> "", data |-> <<>>, cause |-> <<>>]
NoOut == [ok |-> FALSE, data |-> <<>>, msg |-> "", text |-> <<>>]
NoCall == [op |-> "", url |-> <<>>, resp |-> NoResp, out |-> NoOut, hint |-> "",
           ids |-> <<>>, valid |-> <<>>]

\* what a step ran: the handler, the branch it took, and the writing
\* ConfigManager methods it called, in order
Last(handler, note, calls) == [handler |-> handler, note |-> note, calls |-> calls]

\* last, after a step that is not a handler of the interactive thread
Quiet == Last("", "", <<>>)

\* fetches dispatched whose outcome the interactive thread has not handled yet
InFlight == workers + Len(events)

\* the outcome a worker posts: the signal and, with success, the 'data' list.
\* The message of an error is only displayed.
Outcome(r) == [sig |-> IF r.ok THEN "success" ELSE "error", result |-> r.data,
               e |-> "bound"]

(***************************************************************************)
(* The user types.                                                         *)
(***************************************************************************)
\* the user replaces the text of the Base URL field
EditUrl ==
    /\ \E t \in UrlTexts : url_entry' = t
    /\ last' = Quiet
    /\ UNCHANGED <<program, files, current_profile, key_entry, loading, results,
                   profile_list, inflight, store_hist>>

\* the user replaces the text of the API Key field
EditKey ==
    /\ \E t \in KeyTexts : key_entry' = t
    /\ last' = Quiet
    /\ UNCHANGED <<program, files, current_profile, url_entry, loading, results,
                   profile_list, inflight, store_hist>>

(***************************************************************************)
(* main.py: HomePage, ProfilesPage, SettingsPage.                          *)
(***************************************************************************)
\* HomePage._load_config: the text of the URL field afterwards
loaded_url(cfg, old) == IF Truthy(cfg.base_url) THEN cfg.base_url ELSE old

\* HomePage._load_config: the text of the key field afterwards
loaded_key(cfg, old) ==
    IF Truthy(cfg.base_url) /\ Truthy(cfg.api_key) THEN cfg.api_key ELSE old

\* ids_of, were it to leave out the objects that have no 'id'
RECURSIVE ids_of_skipping(_)
ids_of_skipping(models) ==
    IF models = <<>> THEN <<>>
    ELSE IF \E kv \in Head(models) : kv[1] = "id"
    THEN <<get(Head(models), "id", "Unknown")>> \o ids_of_skipping(Tail(models))
    ELSE ids_of_skipping(Tail(models))

\* the ids shown for a 'data' list: m.get("id", "Unknown") for each m
RECURSIVE ids_of(_)
ids_of(models) ==
    IF models = <<>> THEN <<>>
    ELSE <<get(Head(models), "id", "Unknown")>> \o ids_of(Tail(models))

\* ProfilesPage._refresh_list: the files, the cards and the store calls made
refresh_list(fs) ==
    LET profiles == list_profiles(fs)
    IN  IF profiles = {}
        THEN [files |-> save(fs, MOREN, <<>>, <<>>), list |-> {MOREN},
              calls |-> <<"save">>]
        ELSE [files |-> fs, list |-> profiles, calls |-> <<>>]

\* what calls HomePage._fetch: the two buttons (disabled while loading),
\* returnPressed of the two fields, the F5 shortcut
FetchTriggers == {"fetch_btn", "refresh_btn", "url_entry.returnPressed",
                  "key_entry.returnPressed", "F5"}

\* HomePage._set_loading(True) disables fetch_btn and refresh_btn, nothing else
TriggerEnabled(trig) == trig \in {"fetch_btn", "refresh_btn"} => ~loading

\* _fetch, were it to clear the models before it validates the URL
_fetch_clearing_first ==
    /\ program = "main"
    /\ \E trig \in FetchTriggers : TriggerEnabled(trig)
    /\ all_models' = <<>>
    /\ model_ids' = <<>>
    /\ model_cards' = <<>>
    /\ LET url == strip(url_entry)
       IN  IF url = <<>>
           THEN /\ last' = Last("_fetch", "validation: enter BaseURL", <<>>)
                /\ UNCHANGED <<loading, inflight>>
           ELSE IF ~validate_url(url)
           THEN /\ last' = Last("_fetch", "validation: invalid URL format", <<>>)
                /\ UNCHANGED <<loading, inflight>>
           ELSE /\ InFlight < MaxInFlight
                /\ loading' = TRUE
                /\ workers' = workers + 1
                /\ requested' = IF InFlight = 0
                                THEN [url |-> url, key |-> strip(key_entry),
                                      profile |-> current_profile]
                                ELSE NoReq
                /\ last' = Last("_fetch", "dispatched", <<>>)
                /\ UNCHANGED events
    /\ UNCHANGED <<program, files, current_profile, url_entry, key_entry,
                   profile_list, store_hist>>

\* HomePage._fetch
_fetch ==
    /\ program = "main"
    /\ \E trig \in FetchTriggers : TriggerEnabled(trig)
    /\ LET url == strip(url_entry)
       IN  IF url = <<>>
           THEN /\ last' = Last("_fetch", "validation: enter BaseURL", <<>>)
                /\ UNCHANGED <<loading, results, inflight>>
           ELSE IF ~validate_url(url)
           THEN /\ last' = Last("_fetch", "validation: invalid URL format", <<>>)
                /\ UNCHANGED <<loading, results, inflight>>
           ELSE /\ InFlight < MaxInFlight
                /\ loading' = TRUE
                /\ all_models' = <<>>
                /\ model_ids' = <<>>
                /\ model_cards' = <<>>
                /\ workers' = workers + 1
                /\ requested' = IF InFlight = 0
                                THEN [url |-> url, key |-> strip(key_entry),
                                      profile |-> current_profile]
                                ELSE NoReq
                /\ last' = Last("_fetch", "dispatched", <<>>)
                /\ UNCHANGED events
    /\ UNCHANGED <<program, files, current_profile, url_entry, key_entry,
                   profile_list, store_hist>>

\* HomePage._fetch.worker: it reads the key field (in the worker thread),
\* fetch_models() returns or raises, and the success or the error signal is
\* emitted to the interactive thread
worker ==
    /\ program = "main"
    /\ workers > 0
    /\ workers' = workers - 1
    /\ \E resp \in Responses : events' = Append(events, Outcome(fetch_models(resp)))
    /\ requested' = IF requested = NoReq THEN NoReq
                    ELSE [requested EXCEPT !.key = strip(key_entry)]
    /\ last' = Quiet
    /\ UNCHANGED <<program, files, current_profile, url_entry, key_entry, loading,
                   results, profile_list, store_hist>>

\* _on_success, were it to save before it looks at the model list
_on_success_saving_first ==
    /\ program = "main"
    /\ events # <<>> /\ Head(events).sig = "success"
    /\ events' = Tail(events)
    /\ requested' = NoReq
    /\ loading' = FALSE
    /\ files' = save(files, current_profile, strip(url_entry), strip(key_entry))
    /\ LET models == Head(events).result
       IN  IF models = <<>>
           THEN /\ last' = Last("_on_success", "no models", <<"save">>)
                /\ UNCHANGED results
           ELSE /\ all_models' = ids_of(models)
                /\ model_cards' = model_cards \o ids_of(models)
                /\ model_ids' = ids_of(models)
                /\ last' = Last("_on_success", "models", <<"save">>)
    /\ UNCHANGED <<program, current_profile, url_entry, key_entry, profile_list,
                   workers, store_hist>>

\* HomePage._on_success, run for the signal at the head of the queue
_on_success ==
    /\ program = "main"
    /\ events # <<>> /\ Head(events).sig = "success"
    /\ events' = Tail(events)
    /\ requested' = NoReq
    /\ loading' = FALSE
    /\ LET models == Head(events).result
       IN  IF models = <<>>
           THEN /\ last' = Last("_on_success", "no models", <<>>)
                /\ UNCHANGED <<files, results>>
           ELSE /\ all_models' = ids_of(models)
                /\ model_cards' = model_cards \o ids_of(models)
                /\ model_ids' = ids_of(models)
                /\ files' = save(files, current_profile, strip(url_entry), strip(key_entry))
                /\ last' = Last("_on_success", "models", <<"save">>)
    /\ UNCHANGED <<program, current_profile, url_entry, key_entry, profile_list,
                   workers, store_hist>>

\* _on_error, were it to save the fields as _on_success does
_on_error_saving ==
    /\ program = "main"
    /\ events # <<>> /\ Head(events).sig = "error"
    /\ events' = Tail(events)
    /\ requested' = NoReq
    /\ loading' = FALSE
    /\ files' = save(files, current_profile, strip(url_entry), strip(key_entry))
    /\ last' = Last("_on_error", "", <<>>)
    /\ UNCHANGED <<program, current_profile, url_entry, key_entry, results,
                   profile_list, workers, store_hist>>

\* HomePage._on_error, run for the signal at the head of the queue
_on_error ==
    /\ program = "main"
    /\ events # <<>> /\ Head(events).sig = "error"
    /\ events' = Tail(events)
    /\ requested' = NoReq
    /\ loading' = FALSE
    /\ last' = Last("_on_error", "", <<>>)
    /\ UNCHANGED <<program, files, current_profile, url_entry, key_entry, results,
                   profile_list, workers, store_hist>>

\* ProfilesPage._use_profile, which runs HomePage.switch_profile
_use_profile(name) ==
    /\ program = "main"
    /\ name \in profile_list
    /\ current_profile' = name
    /\ all_models' = <<>>
    /\ model_ids' = <<>>
    /\ model_cards' = <<>>
    /\ url_entry' = loaded_url(load(files, name), url_entry)
    /\ key_entry' = loaded_key(load(files, name), key_entry)
    /\ last' = Last("switch_profile", "", <<>>)
    /\ UNCHANGED <<program, files, loading, profile_list, inflight, store_hist>>

\* ProfilesPage._create_profile
_create_profile ==
    /\ program = "main"
    /\ \E text \in NameTexts :
         LET name == strip(text)
         IN  IF name = <<>>
             THEN /\ last' = Last("_create_profile", "rejected: empty", <<>>)
                  /\ UNCHANGED <<files, profile_list>>
             ELSE IF name \in list_profiles(files)
             THEN /\ last' = Last("_create_profile", "rejected: exists", <<>>)
                  /\ UNCHANGED <<files, profile_list>>
             ELSE LET shown == refresh_list(save(files, name, <<>>, <<>>))
                  IN  /\ files' = shown.files
                      /\ profile_list' = shown.list
                      /\ last' = Last("_create_profile", "created", <<"save">> \o shown.calls)
    /\ UNCHANGED <<program, current_profile, url_entry, key_entry, loading, results,
                   inflight, store_hist>>

\* ProfilesPage._refresh_list, from the refresh button of the page
_refresh_list ==
    /\ program = "main"
    /\ LET shown == refresh_list(files)
       IN  /\ files' = shown.files
           /\ profile_list' = shown.list
           /\ last' = Last("_refresh_list", "", shown.calls)
    /\ UNCHANGED <<program, current_profile, url_entry, key_entry, loading, results,
                   inflight, store_hist>>

\* _delete_profile, were it to protect the materialized name instead of "default"
_delete_profile_guarding_moren(name) ==
    /\ program = "main"
    /\ name \in profile_list
    /\ IF name = MOREN
       THEN /\ last' = Last("_delete_profile", "rejected", <<>>)
            /\ UNCHANGED <<files, profile_list>>
       ELSE LET shown == refresh_list(delete(files, name))
            IN  /\ files' = shown.files
                /\ profile_list' = shown.list
                /\ last' = Last("_delete_profile", "deleted", <<"delete">> \o shown.calls)
    /\ UNCHANGED <<program, current_profile, url_entry, key_entry, loading, results,
                   inflight, store_hist>>

\* ProfilesPage._delete_profile, from the delete button of the card of name
_delete_profile(name) ==
    /\ program = "main"
    /\ name \in profile_list
    /\ IF name = DEFAULT
       THEN /\ last' = Last("_delete_profile", "rejected", <<>>)
            /\ UNCHANGED <<files, profile_list>>
       ELSE LET shown == refresh_list(delete(files, name))
            IN  /\ files' = shown.files
                /\ profile_list' = shown.list
                /\ last' = Last("_delete_profile", "deleted", <<"delete">> \o shown.calls)
    /\ UNCHANGED <<program, current_profile, url_entry, key_entry, loading, results,
                   inflight, store_hist>>

\* SettingsPage._clear
_clear ==
    /\ program = "main"
    /\ files' = clear_all(files)
    /\ last' = Last("_clear", "", <<"clear_all">>)
    /\ UNCHANGED <<program, current_profile, url_entry, key_entry, loading, results,
                   profile_list, inflight, store_hist>>

\* MainWindow(): HomePage() loads the profile "default", then ProfilesPage()
\* lists the profiles of config_dir, which holds dir when the program starts
MainLaunch(dir) ==
    /\ program = "main"
    /\ LET shown == refresh_list(dir)
       IN  /\ files = shown.files
           /\ profile_list = shown.list
           /\ last = Last("__init__", "", shown.calls)
    /\ current_profile = DEFAULT
    /\ url_entry = loaded_url(load(dir, DEFAULT), <<>>)
    /\ key_entry = loaded_key(load(dir, DEFAULT), <<>>)
    /\ loading = FALSE
    /\ all_models = <<>>
    /\ model_ids = <<>>
    /\ model_cards = <<>>
    /\ workers = 0
    /\ events = <<>>
    /\ requested = NoReq
    /\ written = <<>>
    /\ ret = NoRet
    /\ client = NoCall
    /\ writing = <<>>

(***************************************************************************)
(* app.py: ModelFetcherApp.  It keeps the one file config.json and has no  *)
(* profiles.                                                               *)
(***************************************************************************)
\* what calls fetch_models_async: the two buttons (disabled while loading) and
\* the <Return> and <F5> bindings of the root window
AppFetchTriggers == {"fetch_button", "refresh_button", "<Return>", "<F5>"}

\* ControlFrame.set_loading_state(True) disables the two buttons, nothing else
AppTriggerEnabled(trig) == trig \in {"fetch_button", "refresh_button"} => ~loading

\* ModelFetcherApp.fetch_models_async
fetch_models_async ==
    /\ program = "app"
    /\ \E trig \in AppFetchTriggers : AppTriggerEnabled(trig)
    /\ LET base_url == strip(url_entry)
           api_key == strip(key_entry)
       IN  IF base_url = <<>>
           THEN /\ last' = Last("fetch_models_async", "validation: enter BaseURL", <<>>)
                /\ UNCHANGED <<loading, results, inflight>>
           ELSE IF ~app_validate_url(base_url)
           THEN /\ last' = Last("fetch_models_async", "validation: invalid URL format", <<>>)
                /\ UNCHANGED <<loading, results, inflight>>
           ELSE /\ InFlight < MaxInFlight
                /\ loading' = TRUE
                /\ model_ids' = <<>>
                /\ model_cards' = <<>>
                /\ workers' = workers + 1
                /\ requested' = IF InFlight = 0
                                THEN [url |-> base_url, key |-> api_key,
                                      profile |-> current_profile]
                                ELSE NoReq
                /\ last' = Last("fetch_models_async", "dispatched", <<>>)
                /\ UNCHANGED <<all_models, events>>
    /\ UNCHANGED <<program, files, current_profile, url_entry, key_entry,
                   profile_list, store_hist>>

\* fetch_models_async.worker: fetch_models() returns or raises, and the callback
\* is handed to root.after(0, ...).  The callback of an error is a lambda that
\* reads the variable e of the except clause when it runs.
app_worker ==
    /\ program = "app"
    /\ workers > 0
    /\ workers' = workers - 1
    /\ \E resp \in Responses : events' = Append(events, Outcome(app_fetch_models(resp)))
    /\ last' = Quiet
    /\ UNCHANGED <<program, files, current_profile, url_entry, key_entry, loading,
                   results, profile_list, requested, store_hist>>

\* fetch_models_async.worker leaves its except clause, which unbinds e
\* ("except APIError as e" deletes e at the end of the clause)
app_worker_exit ==
    /\ program = "app"
    /\ \E i \in 1..Len(events) :
         /\ events[i].sig = "error"
         /\ events[i].e = "bound"
         /\ events' = [events EXCEPT ![i].e = "unbound"]
    /\ last' = Quiet
    /\ UNCHANGED <<program, files, current_profile, url_entry, key_entry, loading,
                   results, profile_list, workers, requested, store_hist>>

\* ModelFetcherApp._on_fetch_success, run by the callback at the head of the queue
_on_fetch_success ==
    /\ program = "app"
    /\ events # <<>> /\ Head(events).sig = "success"
    /\ events' = Tail(events)
    /\ requested' = NoReq
    /\ loading' = FALSE
    /\ LET models == Head(events).result
       IN  IF models = <<>>
           THEN /\ last' = Last("_on_fetch_success", "no models", <<>>)
                /\ UNCHANGED <<files, results>>
           ELSE /\ model_ids' = model_ids \o ids_of(models)
                /\ model_cards' = model_cards \o ids_of(models)
                /\ files' = save_config(files, strip(url_entry), strip(key_entry))
                /\ last' = Last("_on_fetch_success", "models", <<"save_config">>)
                /\ UNCHANGED all_models
    /\ UNCHANGED <<program, current_profile, url_entry, key_entry, profile_list,
                   workers, store_hist>>

\* ModelFetcherApp._on_fetch_error, run by the callback at the head of the
\* queue while e is still bound
_on_fetch_error ==
    /\ program = "app"
    /\ events # <<>> /\ Head(events).sig = "error" /\ Head(events).e = "bound"
    /\ events' = Tail(events)
    /\ requested' = NoReq
    /\ loading' = FALSE
    /\ last' = Last("_on_fetch_error", "", <<>>)
    /\ UNCHANGED <<program, files, current_profile, url_entry, key_entry, results,
                   profile_list, workers, store_hist>>

\* the callback at the head of the queue runs after e was unbound: str(e)
\* raises NameError, _on_fetch_error is not called, Tk reports the exception
callback_NameError ==
    /\ program = "app"
    /\ events # <<>> /\ Head(events).sig = "error" /\ Head(events).e = "unbound"
    /\ events' = Tail(events)
    /\ requested' = NoReq
    /\ last' = Last("lambda", "NameError", <<>>)
    /\ UNCHANGED <<program, files, current_profile, url_entry, key_entry, loading,
                   results, profile_list, workers, store_hist>>

\* ModelFetcherApp._on_url_change, bound to <KeyRelease> of the URL field
_on_url_change ==
    /\ program = "app"
    /\ IF strip(url_entry) = <<>>
       THEN /\ files' = clear_config(files)
            /\ last' = Last("_on_url_change", "empty", <<"clear_config">>)
       ELSE /\ files' = files
            /\ last' = Last("_on_url_change", "", <<>>)
    /\ UNCHANGED <<program, current_profile, url_entry, key_entry, loading, results,
                   profile_list, inflight, store_hist>>

\* ModelFetcherApp(): _load_saved_config fills the fields from config.json
AppLaunch(dir) ==
    /\ program = "app"
    /\ files = dir
    /\ profile_list = {}
    /\ last = Last("__init__", "", <<>>)
    /\ current_profile = stem(config_file)
    /\ url_entry = loaded_url(load_config(dir), <<>>)
    /\ key_entry = loaded_key(load_config(dir), <<>>)
    /\ loading = FALSE
    /\ all_models = <<>>
    /\ model_ids = <<>>
    /\ model_cards = <<>>
    /\ workers = 0
    /\ events = <<>>
    /\ requested = NoReq
    /\ written = <<>>
    /\ ret = NoRet
    /\ client = NoCall
    /\ writing = <<>>

(***************************************************************************)
(* Spec: fetching, in either program.  The user edits the two fields,      *)
(* triggers fetches, and (main.py) switches between the listed profiles;   *)
(* config_dir is empty at the launch.                                      *)
(***************************************************************************)
Init == MainLaunch(<<>>) \/ AppLaunch(<<>>)

Next ==
    \/ EditUrl
    \/ EditKey
    \/ _fetch
    \/ worker
    \/ _on_success
    \/ _on_error
    \/ \E name \in profile_list : _use_profile(name)
    \/ _refresh_list
    \/ fetch_models_async
    \/ app_worker
    \/ app_worker_exit
    \/ _on_fetch_success
    \/ _on_fetch_error
    \/ callback_NameError
    \/ _on_url_change

Spec == Init /\ [][Next]_vars

(***************************************************************************)
(* SpecProfiles: managing the profiles in main.py.  The user creates,      *)
(* uses and deletes profiles and clears the store; config_dir holds what   *)
(* an earlier session left.                                                *)
(***************************************************************************)
\* config_dir at the launch: empty, or the profile saved by a successful fetch
LaunchDirs == { <<>>, save(<<>>, DEFAULT, U1, <<"sk">>) }

ProfilesInit == \E dir \in LaunchDirs : MainLaunch(dir)

ProfilesNext ==
    \/ \E name \in profile_list : _use_profile(name)
    \/ _create_profile
    \/ _refresh_list
    \/ \E name \in profile_list : _delete_profile(name)
    \/ _clear

SpecProfiles == ProfilesInit /\ [][ProfilesNext]_vars

(***************************************************************************)
(* SpecStore: the ConfigManager of either program, called method by method *)
(* with every name and endpoint.                                           *)
(***************************************************************************)
StoreNames == { DEFAULT, MOREN, <<"p1">> }
StoreUrls == { <<>>, U1, FTP }
\* api_key: None (the default of the parameter), "" or a key
StoreKeys == { None, <<>>, <<"sk">> }

Returns(name, endpoint, names) == [name |-> name, endpoint |-> endpoint, names |-> names]

\* written, after the endpoint (url, api_key) was passed to save under name
Written(name, url, api_key) ==
    [n \in (DOMAIN written) \cup {name} |->
        IF n = name THEN [base_url |-> url, api_key |-> api_key] ELSE written[n]]

\* written, after the record of name was removed
Unwritten(name) == [n \in (DOMAIN written) \ {name} |-> written[n]]

store_frame == <<program, current_profile, url_entry, key_entry, loading, results,
                 profile_list, inflight, client, writing>>

\* a call of ConfigManager.save (main.py)
cm_save(name, url, api_key) ==
    /\ program = "main"
    /\ files' = save(files, name, url, api_key)
    /\ written' = Written(name, url, api_key)
    /\ ret' = NoRet
    /\ last' = Last("save", "", <<"save">>)
    /\ UNCHANGED store_frame

\* a call of ConfigManager.load (main.py)
cm_load(name) ==
    /\ program = "main"
    /\ ret' = Returns(name, load(files, name), {})
    /\ last' = Last("load", IF _get_path(name) \in DOMAIN files THEN "present" ELSE "absent", <<>>)
    /\ UNCHANGED <<files, written>>
    /\ UNCHANGED store_frame

\* a call of ConfigManager.delete (main.py)
cm_delete(name) ==
    /\ program = "main"
    /\ files' = delete(files, name)
    /\ written' = Unwritten(name)
    /\ ret' = Returns(name, NoRet.endpoint, {})
    /\ last' = Last("delete", IF _get_path(name) \in DOMAIN files THEN "present" ELSE "absent",
                    <<"delete">>)
    /\ UNCHANGED store_frame

\* a call of ConfigManager.list_profiles (main.py)
cm_list_profiles ==
    /\ program = "main"
    /\ ret' = Returns(None, NoRet.endpoint, list_profiles(files))
    /\ last' = Last("list_profiles", "", <<>>)
    /\ UNCHANGED <<files, written>>
    /\ UNCHANGED store_frame

\* a call of ConfigManager.clear_all (main.py)
cm_clear_all ==
    /\ program = "main"
    /\ files' = clear_all(files)
    /\ written' = <<>>
    /\ ret' = NoRet
    /\ last' = Last("clear_all", "", <<"clear_all">>)
    /\ UNCHANGED store_frame

\* a call of ConfigManager.save_config (app.py)
cm_save_config(url, api_key) ==
    /\ program = "app"
    /\ files' = save_config(files, url, api_key)
    /\ written' = Written(stem(config_file), url, api_key)
    /\ ret' = NoRet
    /\ last' = Last("save_config", "", <<"save_config">>)
    /\ UNCHANGED store_frame

\* a call of ConfigManager.load_config (app.py)
cm_load_config ==
    /\ program = "app"
    /\ ret' = Returns(stem(config_file), load_config(files), {})
    /\ last' = Last("load_config", IF config_file \in DOMAIN files THEN "present" ELSE "absent", <<>>)
    /\ UNCHANGED <<files, written>>
    /\ UNCHANGED store_frame

\* a call of ConfigManager.clear_config (app.py)
cm_clear_config ==
    /\ program = "app"
    /\ files' = clear_config(files)
    /\ written' = <<>>
    /\ ret' = NoRet
    /\ last' = Last("clear_config", "", <<"clear_config">>)
    /\ UNCHANGED store_frame

\* a ConfigManager on an empty config_dir
StoreInit ==
    /\ program \in {"main", "app"}
    /\ files = <<>>
    /\ profile_list = {}
    /\ last = Quiet
    /\ current_profile = DEFAULT
    /\ url_entry = <<>>
    /\ key_entry = <<>>
    /\ loading = FALSE
    /\ all_models = <<>>
    /\ model_ids = <<>>
    /\ model_cards = <<>>
    /\ workers = 0
    /\ events = <<>>
    /\ requested = NoReq
    /\ written = <<>>
    /\ ret = NoRet
    /\ client = NoCall
    /\ writing = <<>>

StoreNext ==
    \/ \E name \in StoreNames, url \in StoreUrls, api_key \in StoreKeys :
          cm_save(name, url, api_key)
    \/ \E name \in StoreNames : cm_load(name)
    \/ \E name \in StoreNames : cm_delete(name)
    \/ cm_list_profiles
    \/ cm_clear_all
    \/ \E url \in StoreUrls, api_key \in StoreKeys : cm_save_config(url, api_key)
    \/ cm_load_config
    \/ cm_clear_config

SpecStore == StoreInit /\ [][StoreNext]_vars

(***************************************************************************)
(* The text of an APIError and the hint shown with it.  A text is a        *)
(* sequence of fragments: the fixed parts of the messages, written here in *)
(* English, and the tokens of what is put into them (the endpoint, the     *)
(* status code, the text of the exception that was caught).  The handlers  *)
(* search the text for keys: keys_in says which keys occur in a fragment.  *)
(* The keys written with CJK characters are named in pinyin: "chaoshi"     *)
(* (U+8D85 U+65F6), "lianjie" (U+8FDE U+63A5), "lianjie cuowu" (U+8FDE     *)
(* U+63A5 U+9519 U+8BEF); "timeout" and "connection" are searched in the   *)
(* lower-cased text.                                                       *)
(***************************************************************************)
\* urljoin(base_url.rstrip('/') + '/', 'models'), base_url stripped by __init__
RECURSIVE rstrip_slash(_)
rstrip_slash(t) ==
    IF t # <<>> /\ t[Len(t)] = "/" THEN rstrip_slash(SubSeq(t, 1, Len(t) - 1)) ELSE t

endpoint_of(base_url) == rstrip_slash(strip(base_url)) \o <<"/", "models">>

\* the search keys that occur in a fragment
keys_in(tok) ==
    CASE tok = "request timed out: the connection got no response for 30 seconds"
              -> {"chaoshi", "lianjie"}
      [] tok = "request timed out: the connection got no response for 30 seconds, check the network connection or the BaseURL"
              -> {"chaoshi", "lianjie"}
      [] tok = "connection error:" -> {"lianjie", "lianjie cuowu"}
      [] tok = "connection error: cannot connect to the server, check the network connection and the BaseURL -"
              -> {"lianjie", "lianjie cuowu"}
      [] tok = "authentication failed: API key invalid or missing (401 Unauthorized)" -> {"401"}
      [] tok = "not found (404 Not Found)" -> {"404"}
      [] tok = "server error: API server internal error (500 Internal Server Error)" -> {"500"}
      [] tok = "JSON parse error: the response is not valid JSON -" -> {"JSON"}
      [] tok = "response format error: expected a JSON object" -> {"JSON"}
      [] tok = "api401" -> {"401"}
      [] tok = "0x7f401a" -> {"401"}
      [] tok = "Connection broken" -> {"connection"}
      [] OTHER -> {}

\* key in text
occurs(key, text) == \E i \in 1..Len(text) : key \in keys_in(text[i])

\* main.py fetch_models: str() of the APIError it raises (<<>> when it returns)
raised_text(resp, endpoint) ==
    IF resp.transport \in {"Timeout", "ConnectTimeout"}
    THEN <<"request timed out: the connection got no response for 30 seconds">>
    ELSE IF resp.transport = "ConnectionError" THEN <<"connection error:">> \o resp.cause
    ELSE IF resp.transport = "RequestException" THEN <<"network request error:">> \o resp.cause
    ELSE IF resp.status = 401 THEN <<"authentication failed: API key invalid or missing">>
    ELSE IF resp.status = 404 THEN <<"endpoint does not exist:">> \o endpoint
    ELSE IF resp.status = 500 THEN <<"internal server error">>
    ELSE IF resp.status # 200 THEN <<"HTTP error: status code", ToString(resp.status)>>
    ELSE IF resp.body = "notjson_requests" THEN <<"network request error:">> \o resp.cause
    ELSE IF resp.body = "notjson_valueerror" THEN <<"response parse error:">> \o resp.cause
    ELSE IF resp.body = "nonobject"
    THEN <<"unknown error:", "object has no attribute 'get'">>
    ELSE IF resp.body \in {"nodata", "data_notlist"}
    THEN <<"response format error: missing a valid 'data' field">>
    ELSE <<>>

\* app.py fetch_models: str() of the APIError it raises (<<>> when it returns)
app_raised_text(resp, endpoint) ==
    IF resp.transport \in {"Timeout", "ConnectTimeout"}
    THEN <<"request timed out: the connection got no response for 30 seconds, check the network connection or the BaseURL">>
    ELSE IF resp.transport = "ConnectionError"
    THEN <<"connection error: cannot connect to the server, check the network connection and the BaseURL -">>
         \o resp.cause
    ELSE IF resp.transport = "RequestException" THEN <<"network request error:">> \o resp.cause
    ELSE IF resp.status = 401
    THEN <<"authentication failed: API key invalid or missing (401 Unauthorized)">>
    ELSE IF resp.status = 404
    THEN <<"endpoint does not exist:">> \o endpoint \o <<"not found (404 Not Found)">>
    ELSE IF resp.status = 500
    THEN <<"server error: API server internal error (500 Internal Server Error)">>
    ELSE IF resp.status # 200 THEN <<"HTTP error: status code", ToString(resp.status)>>
    ELSE IF resp.body \in {"notjson_requests", "notjson_valueerror"}
    THEN <<"JSON parse error: the response is not valid JSON -">> \o resp.cause
    ELSE IF resp.body = "nonobject" THEN <<"response format error: expected a JSON object">>
    ELSE IF resp.body = "nodata" THEN <<"response format error: missing 'data' field">>
    ELSE IF resp.body = "data_notlist"
    THEN <<"response format error: 'data' field should be an array">>
    ELSE <<>>

\* main.py HomePage._on_error: the hint of the first key of the dict hints that
\* occurs in msg, or the default
hint_of(msg) ==
    IF occurs("chaoshi", msg) THEN "check the network connection"
    ELSE IF occurs("lianjie", msg) THEN "check that the URL is reachable"
    ELSE IF occurs("401", msg) THEN "check the API key"
    ELSE IF occurs("404", msg) THEN "confirm that the BaseURL is correct"
    ELSE IF occurs("500", msg) THEN "server problem, retry later"
    ELSE "check the BaseURL and the network"

\* app.py ModelFetcherApp.show_error: guidance
guidance_of(error_message) ==
    IF occurs("chaoshi", error_message) \/ occurs("timeout", error_message)
    THEN "check the network connection and that the BaseURL is correct"
    ELSE IF occurs("lianjie cuowu", error_message) \/ occurs("connection", error_message)
    THEN "check the network connection and that the BaseURL is reachable"
    ELSE IF occurs("401", error_message)
    THEN "an API key may be needed, check the API documentation"
    ELSE IF occurs("404", error_message)
    THEN "confirm that the BaseURL is correct and has the right version path"
    ELSE IF occurs("500", error_message) THEN "the server has a problem, retry later"
    ELSE IF occurs("JSON", error_message) THEN "the server returned an invalid response format"
    ELSE "check the BaseURL and the network connection"

(***************************************************************************)
(* SpecWrite: a save, step by step.  Path.write_text (main.py) and         *)
(* open(config_file, 'w') with json.dump (app.py) open the file itself for *)
(* writing, which truncates it, and the content is in the file when it is  *)
(* closed.  The process can be stopped in between; the files stay as they  *)
(* are and the next session loads them.                                    *)
(***************************************************************************)
WriteNames == { DEFAULT, <<"p1">> }
WriteUrls == { <<>>, U1 }
WriteKeys == { <<"sk">> }

write_frame == <<program, current_profile, url_entry, key_entry, loading, results,
                 profile_list, inflight, written, ret, client>>

\* the write that was begun: the path, the content to write and, when the
\* file existed, its content before
Write(fs, p, doc) ==
    [path |-> p, doc |-> doc, before |-> IF p \in DOMAIN fs THEN <<fs[p]>> ELSE <<>>]

\* ConfigManager.save (main.py): write_text opens the file
save_open(name, url, api_key) ==
    /\ program = "main"
    /\ writing = <<>>
    /\ files' = write_text(files, _get_path(name), Truncated)
    /\ writing' = <<Write(files, _get_path(name),
                          save(files, name, url, api_key)[_get_path(name)])>>
    /\ last' = Last("save", "opened", <<"save">>)
    /\ UNCHANGED write_frame

\* ConfigManager.save_config (app.py): open(config_file, 'w')
save_config_open(url, api_key) ==
    /\ program = "app"
    /\ writing = <<>>
    /\ files' = write_text(files, config_file, Truncated)
    /\ writing' = <<Write(files, config_file, save_config(files, url, api_key)[config_file])>>
    /\ last' = Last("save_config", "opened", <<"save_config">>)
    /\ UNCHANGED write_frame

\* the content is written and the file closed
write_close ==
    /\ writing # <<>>
    /\ files' = write_text(files, Head(writing).path, Head(writing).doc)
    /\ writing' = <<>>
    /\ last' = Last(last.handler, "closed", <<>>)
    /\ UNCHANGED write_frame

\* the process is stopped before the content is written
interrupt ==
    /\ writing # <<>>
    /\ writing' = <<>>
    /\ last' = Last("", "interrupted", <<>>)
    /\ UNCHANGED files
    /\ UNCHANGED write_frame

WriteNext ==
    \/ \E name \in WriteNames, url \in WriteUrls, api_key \in WriteKeys :
          save_open(name, url, api_key)
    \/ \E url \in WriteUrls, api_key \in WriteKeys : save_config_open(url, api_key)
    \/ write_close
    \/ interrupt
    \/ \E name \in WriteNames : writing = <<>> /\ cm_load(name)
    \/ writing = <<>> /\ cm_load_config

SpecWrite == StoreInit /\ [][WriteNext]_vars

(***************************************************************************)
(* SpecClient: one call of the client by itself.  The base URL and the     *)
(* answer of the network are drawn at the start; the worker calls          *)
(* fetch_models, and the handler of the outcome shows the hint of the      *)
(* error or lists the ids of the models.                                   *)
(***************************************************************************)
MaxData == 3        \* length of the 'data' list of a response, at most

\* base URLs that pass the validator
ClientUrls == { U1, <<" ">> \o U1 \o <<"/">>, <<"https", ":", "/", "/", "api401">> }

\* str(e) of the exception that requests or json raised
Causes == { <<"refused">>, <<"Connection broken">>, <<"0x7f401a">> }

\* the objects of a 'data' list
ModelObjects == { WithId, WithoutId, {<<"id", "gpt-y">>, <<"object", "model">>} }

ClientDataLists == UNION { [1..n -> ModelObjects] : n \in 0..MaxData }

ClientResponses ==
    {[transport |-> r.transport, status |-> r.status, body |-> r.body, data |-> <<>>,
      cause |-> c] : r \in {q \in Responses : q.body # "datalist"}, c \in Causes}
    \cup {[transport |-> "ok", status |-> 200, body |-> "datalist", data |-> d,
           cause |-> <<>>] : d \in ClientDataLists}

client_frame == <<program, files, current_profile, url_entry, key_entry, loading, results,
                  profile_list, inflight, written, ret, writing, last>>

\* the worker: OpenAIAPIClient(url, key).fetch_models() returns or raises
call_fetch_models ==
    /\ client.op = "input"
    /\ LET r == IF program = "main" THEN fetch_models(client.resp)
                ELSE app_fetch_models(client.resp)
           text == IF program = "main"
                   THEN raised_text(client.resp, endpoint_of(client.url))
                   ELSE app_raised_text(client.resp, endpoint_of(client.url))
       IN  client' = [client EXCEPT !.op = "fetch_models",
                         !.out = [ok |-> r.ok, data |-> r.data, msg |-> r.msg, text |-> text]]
    /\ UNCHANGED client_frame

\* _on_error (main.py) / show_error (app.py) with the text of the APIError
show_hint ==
    /\ client.op = "fetch_models"
    /\ ~client.out.ok
    /\ client' = [client EXCEPT !.op = "_on_error",
                     !.hint = IF program = "main" THEN hint_of(client.out.text)
                              ELSE guidance_of(client.out.text)]
    /\ UNCHANGED client_frame

\* _on_success (main.py) / _on_fetch_success (app.py): the ids that are listed
list_models ==
    /\ client.op = "fetch_models"
    /\ client.out.ok
    /\ client' = [client EXCEPT !.op = "_on_success", !.ids = ids_of(client.out.data)]
    /\ UNCHANGED client_frame

ClientInit ==
    /\ program \in {"main", "app"}
    /\ \E url \in ClientUrls, resp \in ClientResponses :
          client = [NoCall EXCEPT !.op = "input", !.url = url, !.resp = resp]
    /\ files = <<>>
    /\ profile_list = {}
    /\ last = Quiet
    /\ current_profile = DEFAULT
    /\ url_entry = <<>>
    /\ key_entry = <<>>
    /\ loading = FALSE
    /\ all_models = <<>>
    /\ model_ids = <<>>
    /\ model_cards = <<>>
    /\ workers = 0
    /\ events = <<>>
    /\ requested = NoReq
    /\ written = <<>>
    /\ ret = NoRet
    /\ writing = <<>>

ClientNext == call_fetch_models \/ show_hint \/ list_models

SpecClient == ClientInit /\ [][ClientNext]_vars

(***************************************************************************)
(* SpecValidate: the two validate_url applied to one text, drawn at the    *)
(* start from the texts of up to MaxUrlLen tokens, bare or with a space    *)
(* before and after.                                                       *)
(***************************************************************************)
MaxUrlLen == 5      \* tokens of a text given to validate_url, at most

UrlTokens == {" ", "http", "HTTP", "ftp", ":", "/", "a", "["}

UrlBodies == UNION { [1..n -> UrlTokens] : n \in 0..MaxUrlLen }

UrlInputs == UrlBodies \cup { <<" ">> \o b \o <<" ">> : b \in UrlBodies } \cup { U1 }

\* OpenAIAPIClient.validate_url of main.py and of app.py, called with the text
call_validate_url ==
    /\ client.op = "input"
    /\ client' = [client EXCEPT !.op = "validate_url",
                     !.valid = <<validate_url(client.url), app_validate_url(client.url)>>]
    /\ UNCHANGED client_frame

ValidateInit ==
    /\ program = "main"
    /\ \E url \in UrlInputs : client = [NoCall EXCEPT !.op = "input", !.url = url]
    /\ files = <<>>
    /\ profile_list = {}
    /\ last = Quiet
    /\ current_profile = DEFAULT
    /\ url_entry = <<>>
    /\ key_entry = <<>>
    /\ loading = FALSE
    /\ all_models = <<>>
    /\ model_ids = <<>>
    /\ model_cards = <<>>
    /\ workers = 0
    /\ events = <<>>
    /\ requested = NoReq
    /\ written = <<>>
    /\ ret = NoRet
    /\ writing = <<>>

ValidateNext == call_validate_url

SpecValidate == ValidateInit /\ [][ValidateNext]_vars

(***************************************************************************)
(* Properties.                                                             *)
(***************************************************************************)
EndpointOf(req) == [base_url |-> req.url, api_key |-> req.key]

\* C1: the handling of a Failed outcome (main.py _on_error; app.py
\* _on_fetch_error, or the callback that raises before it) calls no writing
\* ConfigManager method and leaves every profile file as it was
C1_FailedLeavesStore ==
    [][(_on_error \/ _on_fetch_error \/ callback_NameError)
          => (files' = files /\ last'.calls = <<>>)]_vars

\* an error was handled while the fields differ from the record of the
\* current profile, which exists
C1_Witness ==
    /\ last.handler = "_on_error"
    /\ _get_path(current_profile) \in DOMAIN files
    /\ load(files, current_profile).base_url # strip(url_entry)

C3_RecordHoldsRequested ==
    [][(_on_success /\ Head(events).result # <<>> /\ requested # NoReq)
          => load(files', requested.profile) = EndpointOf(requested)]_vars

\* the handlers of the two outcomes
SuccessHandlers == {"_on_success", "_on_fetch_success"}
ErrorHandlers == {"_on_error", "_on_fetch_error"}

\* C4 as stated (safety part): a worker posts exactly one outcome, and every
\* outcome taken from the queue is delivered, once, to the handler of its kind
C4_ExactlyOneOutcome ==
    [][/\ workers' < workers =>
             workers' = workers - 1 /\ Len(events') = Len(events) + 1
       /\ Len(events') < Len(events) =>
             /\ events' = Tail(events)
             /\ Head(events).sig = "success" => last'.handler \in SuccessHandlers
             /\ Head(events).sig = "error" => last'.handler \in ErrorHandlers]_vars

\* C5 as stated: at most one fetch is in flight
C5_AtMostOneInFlight == InFlight <= 1

\* C6: a fetch request whose URL is empty after trimming or fails the validator
\* starts no worker, posts nothing, does not enter the loading state, keeps the
\* model lists and writes no file
C6_InvalidUrlStopsFetch ==
    [][/\ (_fetch /\ (strip(url_entry) = <<>> \/ ~validate_url(strip(url_entry))))
             => /\ UNCHANGED <<files, workers, events, loading, all_models,
                               model_ids, model_cards>>
                /\ last'.calls = <<>>
       /\ (fetch_models_async
             /\ (strip(url_entry) = <<>> \/ ~app_validate_url(strip(url_entry))))
             => /\ UNCHANGED <<files, workers, events, loading, all_models,
                               model_ids, model_cards>>
                /\ last'.calls = <<>>]_vars

\* a fetch was refused for its URL while models were listed
C6_Witness ==
    /\ last.handler = "_fetch"
    /\ last.note = "validation: invalid URL format"
    /\ model_ids # <<>>
    /\ ~loading

\* C7: the request to delete "default" changes no file
C7_DeleteDefaultRejected ==
    [][_delete_profile(DEFAULT) => (files' = files /\ last'.calls = <<>>)]_vars

\* the deletion of "default" was refused and its record holds its endpoint
C7_Witness ==
    /\ last = Last("_delete_profile", "rejected", <<>>)
    /\ load(files, DEFAULT) = [base_url |-> U1, api_key |-> <<"sk">>]

\* C8 as stated: whenever the profiles were listed, the list contains
\* "default", and so does the store
C8_ListContainsDefault ==
    last.handler \in {"__init__", "_refresh_list"}
        => (DEFAULT \in profile_list /\ DEFAULT \in list_profiles(files))

\* a credential as the data model reads it: None and "" both mean none
SameCredential(a, b) == IF Truthy(a) \/ Truthy(b) THEN a = b ELSE TRUE

\* C9: load returns the base_url and the credential last saved under the name
\* (a second save replaces the first), and the name has exactly one record
C9_SaveLoadRoundTrip ==
    /\ \A n \in DOMAIN written :
          Cardinality({p \in DOMAIN files : stem(p) = n}) = 1
    /\ (last.handler \in {"load", "load_config"} /\ ret.name \in DOMAIN written)
          => /\ ret.endpoint.base_url = written[ret.name].base_url
             /\ SameCredential(ret.endpoint.api_key, written[ret.name].api_key)

\* a load returned a URL and a key that were saved
C9_Witness ==
    /\ last.handler = "load"
    /\ ret.name \in DOMAIN written
    /\ ret.endpoint = [base_url |-> U1, api_key |-> <<"sk">>]

\* C10: delete(name), name other than "default", leaves no record of name
\* (load returns None for both fields, list_profiles omits it), leaves every
\* other record and the rest of the list as they were, and changes nothing
\* when name has no record
C10_DeleteRemovesOnlyThat ==
    [][\A name \in StoreNames \ {DEFAULT} :
          cm_delete(name) =>
             /\ load(files', name) = [base_url |-> None, api_key |-> None]
             /\ name \notin list_profiles(files')
             /\ \A other \in StoreNames \ {name} :
                   /\ load(files', other) = load(files, other)
                   /\ other \in list_profiles(files') <=> other \in list_profiles(files)
             /\ _get_path(name) \notin DOMAIN files => files' = files]_vars

\* a record was deleted and another profile is still there
C10_Witness ==
    /\ last = Last("delete", "present", <<"delete">>)
    /\ ret.name # DEFAULT
    /\ list_profiles(files) # {}

\* the validator of the program that runs
Validates(url) == IF program = "main" THEN validate_url(url) ELSE app_validate_url(url)

\* C11 as stated: the base_url of every record in the store is empty or a URL
\* that passes the validator
C11_StoredUrlsValidated ==
    \A p \in DOMAIN files : files[p].base_url = <<>> \/ Validates(files[p].base_url)

\* C12 as stated: a step that removes a file of the store is the handling of
\* a delete request or of the store-wide clear
C12_RemovedOnlyByDeleteOrClear ==
    [][(\E p \in DOMAIN files : p \notin DOMAIN files')
          => last'.handler \in {"_delete_profile", "_clear"}]_vars

\* C13 as stated: the switch to a stored profile makes it the current one,
\* empties the model lists and shows the URL and the key stored for it
C13_SwitchShowsStored ==
    [][\A name \in profile_list :
          (_use_profile(name) /\ _get_path(name) \in DOMAIN files)
             => /\ current_profile' = name
                /\ all_models' = <<>> /\ model_ids' = <<>> /\ model_cards' = <<>>
                /\ url_entry' = load(files, name).base_url
                /\ key_entry' = load(files, name).api_key]_vars

\* part occurs in text, as a run of fragments
Carries(text, part) ==
    \E i \in 1..(Len(text) - Len(part) + 1) : SubSeq(text, i, i + Len(part) - 1) = part

\* C14: fetch_models classifies by what the transport raised, then by the
\* status code: a timeout (a connect timeout too) is "timeout"; another
\* connection failure is "connection error" with the cause in the text; another
\* transport exception is "network request error"; 401, 404 (with the endpoint
\* base_url + "/models" in the text) and 500 have their own message; another
\* status than 200 is "HTTP error status" with the code in the text; and only
\* a 200 response can return
C14_ClassifiedInPriorityOrder ==
    client.op = "fetch_models" =>
        LET r == client.resp
            o == client.out
        IN  /\ r.transport \in {"Timeout", "ConnectTimeout"} => ~o.ok /\ o.msg = "timeout"
            /\ r.transport = "ConnectionError" =>
                  ~o.ok /\ o.msg = "connection error" /\ Carries(o.text, r.cause)
            /\ r.transport = "RequestException" => ~o.ok /\ o.msg = "network request error"
            /\ (r.transport = "ok" /\ r.status = 401) =>
                  ~o.ok /\ o.msg = "401 authentication failed"
            /\ (r.transport = "ok" /\ r.status = 404) =>
                  /\ ~o.ok /\ o.msg = "404 endpoint not found"
                  /\ Carries(o.text, strip(client.url))
                  /\ Carries(o.text, <<"a", "/", "models">>)
                        \/ Carries(o.text, <<"api401", "/", "models">>)
            /\ (r.transport = "ok" /\ r.status = 500) =>
                  ~o.ok /\ o.msg = "500 internal server error"
            /\ (r.transport = "ok" /\ r.status \notin {200, 401, 404, 500}) =>
                  /\ ~o.ok /\ o.msg = "HTTP error status"
                  /\ Carries(o.text, <<ToString(r.status)>>)
            /\ o.ok => (r.transport = "ok" /\ r.status = 200)
            /\ ~o.ok => (o.msg # "" /\ o.text # <<>>)

\* a connect timeout was classified
C14_Witness ==
    /\ client.op = "fetch_models"
    /\ client.resp.transport = "ConnectTimeout"
    /\ client.out.msg = "timeout"

\* C15 as stated: of a 200 response, a body that is not JSON is a parse error,
\* a body that is not an object, has no 'data' or whose 'data' is not a list
\* is a format error, and only an object with a 'data' list returns
C15_BodyClassified ==
    (client.op = "fetch_models" /\ client.resp.transport = "ok" /\ client.resp.status = 200) =>
        LET r == client.resp
            o == client.out
        IN  /\ r.body \in {"notjson_requests", "notjson_valueerror"} =>
                  ~o.ok /\ o.msg \in {"response parse error", "JSON parse error"}
            /\ r.body \in {"nonobject", "nodata", "data_notlist"} =>
                  ~o.ok /\ o.msg = "response format error"
            /\ o.ok <=> r.body = "datalist"

\* C16: the ids listed for a success are one per object of 'data', in its
\* order: the 'id' of an object that has one, "Unknown" for one that has none
C16_IdsFollowData ==
    client.op = "_on_success" =>
        /\ Len(client.ids) = Len(client.out.data)
        /\ \A i \in 1..Len(client.out.data) :
              \/ <<"id", client.ids[i]>> \in client.out.data[i]
              \/ /\ client.ids[i] = "Unknown"
                 /\ \A kv \in client.out.data[i] : kv[1] # "id"

\* the ids of [{id: gpt-x}, {}] were listed
C16_Witness ==
    /\ client.op = "_on_success"
    /\ client.out.data = <<WithId, WithoutId>>
    /\ client.ids = <<"gpt-x", "Unknown">>

\* the hint the claim gives to a kind of error, in the words of the program
HintOfKind(kind) ==
    IF program = "main"
    THEN CASE kind = "timeout" -> {"check the network connection"}
           [] kind = "connection error" ->
                 {"check the network connection", "check that the URL is reachable"}
           [] kind = "401 authentication failed" -> {"check the API key"}
           [] kind = "404 endpoint not found" -> {"confirm that the BaseURL is correct"}
           [] kind = "500 internal server error" -> {"server problem, retry later"}
           [] kind \in {"response parse error", "response format error"} ->
                 {"the server returned an invalid response format"}
           [] OTHER -> {"check the BaseURL and the network"}
    ELSE CASE kind = "timeout" ->
                 {"check the network connection and that the BaseURL is correct"}
           [] kind = "connection error" ->
                 {"check the network connection and that the BaseURL is correct",
                  "check the network connection and that the BaseURL is reachable"}
           [] kind = "401 authentication failed" ->
                 {"an API key may be needed, check the API documentation"}
           [] kind = "404 endpoint not found" ->
                 {"confirm that the BaseURL is correct and has the right version path"}
           [] kind = "500 internal server error" -> {"the server has a problem, retry later"}
           [] kind \in {"JSON parse error", "response format error"} ->
                 {"the server returned an invalid response format"}
           [] OTHER -> {"check the BaseURL and the network connection"}

\* C17 as stated: the hint shown with an error is the one of its kind,
\* whatever the endpoint, the cause or the status code in its text
C17_HintByKindAlone ==
    client.op = "_on_error" => client.hint \in HintOfKind(client.out.msg)

\* C18 as stated: after a save was interrupted, the file it was writing holds
\* the complete new record or is as it was before the save (the complete
\* record it held, or no file), and the other files are as they were
C18_SaveAllOrNothing ==
    [][interrupt =>
          LET w == Head(writing)
          IN  /\ \/ w.path \in DOMAIN files' /\ files'[w.path] = w.doc
                 \/ /\ w.before # <<>> /\ w.before # <<Truncated>>
                    /\ w.path \in DOMAIN files' /\ files'[w.path] = w.before[1]
                 \/ w.before = <<>> /\ w.path \notin DOMAIN files'
              /\ \A q \in (DOMAIN files) \ {w.path} :
                    q \in DOMAIN files' /\ files'[q] = files[q]]_vars

\* C19 as stated: every file that was written is a profile of the profile
\* directory with a non-empty name: its path has no separator (a create
\* request with such a name is refused and writes nothing)
C19_NamesWellFormed ==
    \A p \in DOMAIN files : InDir(p) /\ stem(p) # <<>>

\* a text that reads scheme "://" authority ..., the scheme http or https in
\* either case, the authority non-empty and without an unmatched "["
WellFormedHttp(t) ==
    /\ Len(t) >= 5
    /\ t[1] \in {"http", "https", "HTTP"}
    /\ t[2] = ":" /\ t[3] = "/" /\ t[4] = "/"
    /\ t[5] # "/"
    /\ \A i \in 5..Len(t) : t[i] = "[" => \E j \in 5..(i - 1) : t[j] = "/"

\* C20: validate_url of main.py and of app.py return the same for every text,
\* and return true exactly for the texts that, stripped, are an http or https
\* URL with a non-empty authority; a text that does not parse gives false
C20_ValidateUrl ==
    client.op = "validate_url" =>
        /\ client.valid[1] = client.valid[2]
        /\ client.valid[1] <=> WellFormedHttp(strip(client.url))

\* a URL with a space before and after was accepted by both
C20_Witness ==
    /\ client.op = "validate_url"
    /\ client.url = <<" ", "http", ":", "/", "/", "a", " ">>
    /\ client.valid = <<TRUE, TRUE>>

\* C21 as stated: the loading state is true exactly while a fetch was
\* dispatched and its outcome has not been handled
C21_LoadingTracksInFlight == loading <=> InFlight > 0

\* C22 as stated: the models listed by the handling of a success are the ids
\* of that one response, none left from another fetch, and the fetch was
\* requested under the profile that is current (known for a fetch that was the
\* only one in flight)
C22_ListIsOneResponse ==
    [][((_on_success \/ _on_fetch_success) /\ Head(events).result # <<>>)
          => /\ model_cards' = ids_of(Head(events).result)
             /\ model_ids' = ids_of(Head(events).result)
             /\ requested # NoReq => requested.profile = current_profile]_vars

====
